---- MODULE Spec2Model ----
(***************************************************************************)
(* Model of the chunk writer of td-client-rust, src/table_import.rs:       *)
(* TableImportWritableChunk (row cursor elms_in_row, gzip sink write,      *)
(* scratch directory tmp_dir) with its operations new, next_row,           *)
(* write_key_and_<T> and close, and the error values they return.          *)
(*                                                                         *)
(* The sink content is kept as the sequence of msgpack items handed to the *)
(* encoder: a map header [t |-> "map", n |-> len], a key [t |-> "key"], a  *)
(* value [t |-> "val"].  Key and value contents are not part of the state, *)
(* nor are the bytes of an item whose write the sink rejected.  The u32    *)
(* counters are U32Bits wide, so that a row of U32Max fields can be filled *)
(* within MaxCalls calls.                                                  *)
(***************************************************************************)
EXTENDS Naturals, Integers, Sequences, FiniteSets, TLC

\* ------------------------------------------------------------------ bounds
MaxCalls == 5          \* next_row / write_key_and_* / close calls per behaviour
U32Bits  == 2          \* width of the u32 counters in the model (32 in the source)

\* largest value of the u32 fields of elms_in_row and of next_row's len
U32Max == 2^U32Bits - 1

\* Option<T>
None    == <<>>
Some(x) == <<x>>

Lens == 0..U32Max

\* What the sink does with one encoder write: accepts it, or rejects it (the
\* rmp call returns a ValueWriteError and the item is not in the stream).
SinkOutcomes == {"ok", "fail"}

VARIABLES
    life,          \* "unborn" | "writable" | "consumed" | "panicked" | "failed"
                   \* | "dropped"
    elms_in_row,   \* Option<(capacity, added)>
    write,         \* items written to the GzEncoder, oldest first
    finished,      \* GzEncoder::finish() has written the gzip trailer
    tmp_dir,       \* holder of the TempDir handle: "none" | "writer" | "readable"
    scratch,       \* on disk: "absent" | "dir" | "dir+file"
    ret,           \* the value returned by the most recent call
    ncalls,        \* number of next_row / write_key_and_* / close calls made
    nchunks,       \* number of TableImportReadableChunk values produced
    close_calls,   \* number of close() calls made
    g_row,         \* history: Some(<<n, k>>), n the argument of the last next_row
                   \* that returned Ok, k the writes that returned Ok since
    disciplined,   \* history: every call so far was made in row discipline and
                   \* neither the sink nor finish() has failed
    chunk,         \* the TableImportReadableChunk: "none" | "alive" | "dropped"
    errored,       \* history: a next_row or write_key_and_* call returned Err
    g_new,         \* history: what new() met: "none" before it, "ok", or the
                   \* step that failed: "dir_fail" | "path_fail" | "file_fail"
    g_fin          \* history: what finish() did in close: "none" (not called),
                   \* "ok" or "fail"

vars == <<life, elms_in_row, write, finished, tmp_dir, scratch, ret,
          ncalls, nchunks, close_calls, g_row, disciplined,
          chunk, errored, g_new, g_fin>>

\* --------------------------------------------------------------- results
\* Result<_, TableImportChunkError> of a call, with the rmp encoder used for
\* the value (write_key_and_* only).
Ok(op, enc) == [op |-> op, enc |-> enc, kind |-> "Ok", err |-> None]
Err(op, enc, kind, payload) == [op |-> op, enc |-> enc, kind |-> kind, err |-> payload]

\* UnmatchElementNumsError(Option<(u32, u32)>)
UnmatchElementNumsError(op, enc, payload) ==
    Err(op, enc, "UnmatchElementNums", payload)

\* ------------------------------------------------------------------ sink
PutMap(s, len) == Append(s, [t |-> "map", n |-> len])
PutKey(s)      == Append(s, [t |-> "key", n |-> 0])
PutVal(s)      == Append(s, [t |-> "val", n |-> 0])

\* One rmp::encode call on the sink: the items after it, under outcome o.
SinkWrite(s, put, o) == IF o = "ok" THEN put ELSE s

\* What one write_key_and_* call can meet: the sink's answer to the key write,
\* its answer to the value write (reached only when the key was accepted), and
\* the build's overflow checking (looked at only when both were accepted).
WriteKeyOutcomes ==
    {[key |-> k, val |-> "ok", overflow_checks |-> FALSE] : k \in SinkOutcomes \ {"ok"}}
    \cup {[key |-> "ok", val |-> v, overflow_checks |-> FALSE] : v \in SinkOutcomes \ {"ok"}}
    \cup {[key |-> "ok", val |-> "ok", overflow_checks |-> c] : c \in BOOLEAN}

\* ------------------------------------------------------------ the cursor
\* check_elm_number with the comparison weakened from != to <.
check_elm_number_lt(e) ==
    IF e = None THEN [kind |-> "Ok", err |-> None]
    ELSE LET capacity == e[1][1]
             added    == e[1][2]
         IN  IF capacity < added
             THEN [kind |-> "Err", err |-> Some(<<capacity, added>>)]
             ELSE [kind |-> "Ok", err |-> None]

\* check_elm_number treating an absent cursor as a mismatch.
check_elm_number_none_err(e) ==
    IF e = None THEN [kind |-> "Err", err |-> None]
    ELSE LET capacity == e[1][1]
             added    == e[1][2]
         IN  IF capacity # added
             THEN [kind |-> "Err", err |-> Some(<<capacity, added>>)]
             ELSE [kind |-> "Ok", err |-> None]

check_elm_number(e) ==
    IF e = None THEN [kind |-> "Ok", err |-> None]
    ELSE LET capacity == e[1][1]
             added    == e[1][2]
         IN  IF capacity # added
             THEN [kind |-> "Err", err |-> Some(<<capacity, added>>)]
             ELSE [kind |-> "Ok", err |-> None]

\* incr_elms_in_row with the bound test off by one: capacity <= new_added.
incr_elms_in_row_le(e, overflow_checks) ==
    IF e = None THEN [kind |-> "Err", elms |-> e, err |-> None]
    ELSE LET capacity == e[1][1]
             added    == e[1][2]
         IN  IF added + 1 > U32Max /\ overflow_checks
             THEN [kind |-> "panic", elms |-> e, err |-> None]
             ELSE LET new_added == (added + 1) % (U32Max + 1)
                  IN  IF capacity <= new_added
                      THEN [kind |-> "Err", elms |-> e,
                            err |-> Some(<<capacity, new_added>>)]
                      ELSE [kind |-> "Ok",
                            elms |-> Some(<<capacity, new_added>>),
                            err |-> None]

\* incr_elms_in_row with the bound test off by one the other way:
\* capacity + 1 < new_added.
incr_elms_in_row_slack(e, overflow_checks) ==
    IF e = None THEN [kind |-> "Err", elms |-> e, err |-> None]
    ELSE LET capacity == e[1][1]
             added    == e[1][2]
         IN  IF added + 1 > U32Max /\ overflow_checks
             THEN [kind |-> "panic", elms |-> e, err |-> None]
             ELSE LET new_added == (added + 1) % (U32Max + 1)
                  IN  IF capacity + 1 < new_added
                      THEN [kind |-> "Err", elms |-> e,
                            err |-> Some(<<capacity, new_added>>)]
                      ELSE [kind |-> "Ok",
                            elms |-> Some(<<capacity, new_added>>),
                            err |-> None]

\* incr_elms_in_row reporting the stored pair, not the attempted count.
incr_elms_in_row_stored(e, overflow_checks) ==
    IF e = None THEN [kind |-> "Err", elms |-> e, err |-> None]
    ELSE LET capacity == e[1][1]
             added    == e[1][2]
         IN  IF added + 1 > U32Max /\ overflow_checks
             THEN [kind |-> "panic", elms |-> e, err |-> None]
             ELSE LET new_added == (added + 1) % (U32Max + 1)
                  IN  IF capacity < new_added
                      THEN [kind |-> "Err", elms |-> e,
                            err |-> Some(<<capacity, added>>)]
                      ELSE [kind |-> "Ok",
                            elms |-> Some(<<capacity, new_added>>),
                            err |-> None]

\* added + 1 is u32 arithmetic: with overflow checks (debug profile) it
\* panics past U32Max, without them (release profile) it wraps.
incr_elms_in_row(e, overflow_checks) ==
    IF e = None THEN [kind |-> "Err", elms |-> e, err |-> None]
    ELSE LET capacity == e[1][1]
             added    == e[1][2]
         IN  IF added + 1 > U32Max /\ overflow_checks
             THEN [kind |-> "panic", elms |-> e, err |-> None]
             ELSE LET new_added == (added + 1) % (U32Max + 1)
                  IN  IF capacity < new_added
                      THEN [kind |-> "Err", elms |-> e,
                            err |-> Some(<<capacity, new_added>>)]
                      ELSE [kind |-> "Ok",
                            elms |-> Some(<<capacity, new_added>>),
                            err |-> None]

\* ------------------------------------------------------- row discipline
\* The caller's side of the row API, told from the history only.
RowComplete == g_row = None \/ g_row[1][1] = g_row[1][2]
RowHasRoom  == g_row # None /\ g_row[1][2] < g_row[1][1]

\* ------------------------------------------------------------------ Init
Init ==
    /\ life = "unborn"
    /\ elms_in_row = None
    /\ write = <<>>
    /\ finished = FALSE
    /\ tmp_dir = "none"
    /\ scratch = "absent"
    /\ ret = Ok("none", "none")
    /\ ncalls = 0
    /\ nchunks = 0
    /\ close_calls = 0
    /\ g_row = None
    /\ disciplined = TRUE
    /\ chunk = "none"
    /\ errored = FALSE
    /\ g_new = "none"
    /\ g_fin = "none"

\* ------------------------------------------------------------------- new
\* new() keeping the directory on an early return (the TempDir not dropped).
new_leaky ==
    /\ life = "unborn"
    /\ \E o \in {"ok", "dir_fail", "path_fail", "file_fail"} :
        /\ life' = IF o = "ok" THEN "writable" ELSE "failed"
        /\ tmp_dir' = IF o = "ok" THEN "writer" ELSE "none"
        /\ scratch' = CASE o = "ok"        -> "dir+file"
                        [] o = "dir_fail"  -> "absent"
                        [] o = "path_fail" -> "dir"
                        [] o = "file_fail" -> "dir"
        /\ ret' = CASE o = "ok"        -> Ok("new", "none")
                    [] o = "dir_fail"  -> Err("new", "none", "IOError", None)
                    [] o = "path_fail" -> Err("new", "none", "UnexpectedError", None)
                    [] o = "file_fail" -> Err("new", "none", "IOError", None)
        /\ disciplined' = (o = "ok")
        /\ g_new' = o
    /\ elms_in_row' = None
    /\ UNCHANGED <<write, finished, ncalls, nchunks, close_calls, g_row,
                   chunk, errored, g_fin>>

\* TempDir::new, then the path conversion, then File::create; an early return
\* drops the local tmp_dir, which removes the directory it created.
new ==
    /\ life = "unborn"
    /\ \E o \in {"ok", "dir_fail", "path_fail", "file_fail"} :
        /\ life' = IF o = "ok" THEN "writable" ELSE "failed"
        /\ tmp_dir' = IF o = "ok" THEN "writer" ELSE "none"
        /\ scratch' = IF o = "ok" THEN "dir+file" ELSE "absent"
        /\ ret' = CASE o = "ok"        -> Ok("new", "none")
                    [] o = "dir_fail"  -> Err("new", "none", "IOError", None)
                    [] o = "path_fail" -> Err("new", "none", "UnexpectedError", None)
                    [] o = "file_fail" -> Err("new", "none", "IOError", None)
        /\ disciplined' = (o = "ok")
        /\ g_new' = o
    /\ elms_in_row' = None
    /\ UNCHANGED <<write, finished, ncalls, nchunks, close_calls, g_row,
                   chunk, errored, g_fin>>

\* -------------------------------------------------------------- next_row
next_row ==
    /\ life = "writable"
    /\ ncalls < MaxCalls
    /\ \E len \in Lens, o \in SinkOutcomes :
        LET chk == check_elm_number(elms_in_row)
        IN  IF chk.kind = "Err"
            THEN /\ ret' = UnmatchElementNumsError("next_row", "write_map_len", chk.err)
                 /\ UNCHANGED <<write, elms_in_row, g_row>>
                 /\ disciplined' = (disciplined /\ RowComplete)
            ELSE /\ write' = SinkWrite(write, PutMap(write, len), o)
                 /\ IF o # "ok"
                    THEN /\ ret' = Err("next_row", "write_map_len",
                                       "MsgpackValueWriteError", None)
                         /\ UNCHANGED <<elms_in_row, g_row>>
                         /\ disciplined' = FALSE
                    ELSE /\ elms_in_row' = Some(<<len, 0>>)
                         /\ ret' = Ok("next_row", "write_map_len")
                         /\ g_row' = Some(<<len, 0>>)
                         /\ disciplined' = (disciplined /\ RowComplete)
    /\ errored' = (errored \/ ret'.kind # "Ok")
    /\ ncalls' = ncalls + 1
    /\ UNCHANGED <<life, finished, tmp_dir, scratch, nchunks, close_calls,
                   chunk, g_new, g_fin>>

\* ------------------------------------------------------- write_key_and_*
\* The body every write_key_and_<T> shares: write_str(key), then the value
\* encoder enc, then incr_elms_in_row.
write_key_and(op, enc) ==
    /\ life = "writable"
    /\ ncalls < MaxCalls
    /\ \E o \in WriteKeyOutcomes :
        LET afterKey == SinkWrite(write, PutKey(write), o.key)
        IN  IF o.key # "ok"
            THEN /\ write' = afterKey
                 /\ ret' = Err(op, enc, "MsgpackValueWriteError", None)
                 /\ UNCHANGED <<elms_in_row, g_row, life>>
                 /\ disciplined' = FALSE
            ELSE LET afterVal == SinkWrite(afterKey, PutVal(afterKey), o.val)
                 IN  /\ write' = afterVal
                     /\ IF o.val # "ok"
                        THEN /\ ret' = Err(op, enc, "MsgpackValueWriteError", None)
                             /\ UNCHANGED <<elms_in_row, g_row, life>>
                             /\ disciplined' = FALSE
                        ELSE LET inc == incr_elms_in_row(elms_in_row, o.overflow_checks)
                             IN  /\ elms_in_row' = inc.elms
                                 /\ life' = IF inc.kind = "panic" THEN "panicked" ELSE life
                                 /\ ret' = CASE inc.kind = "Ok" -> Ok(op, enc)
                                             [] inc.kind = "Err" ->
                                                  UnmatchElementNumsError(op, enc, inc.err)
                                             [] inc.kind = "panic" ->
                                                  Err(op, enc, "panic", None)
                                 /\ g_row' = IF inc.kind = "Ok" /\ g_row # None
                                             THEN Some(<<g_row[1][1], g_row[1][2] + 1>>)
                                             ELSE g_row
                                 /\ disciplined' = (disciplined /\ RowHasRoom)
    /\ errored' = (errored \/ ret'.kind \notin {"Ok", "panic"})
    /\ ncalls' = ncalls + 1
    /\ UNCHANGED <<finished, tmp_dir, scratch, nchunks, close_calls,
                   chunk, g_new, g_fin>>

write_key_and_array_header == write_key_and("write_key_and_array_header", "write_array_len")
write_key_and_bin          == write_key_and("write_key_and_bin", "write_bin")
write_key_and_bool         == write_key_and("write_key_and_bool", "write_bool")
write_key_and_ext_meta     == write_key_and("write_key_and_ext_meta", "write_ext_meta")
write_key_and_f32          == write_key_and("write_key_and_f32", "write_f32")
write_key_and_f64          == write_key_and("write_key_and_f64", "write_f64")
write_key_and_i16          == write_key_and("write_key_and_i16", "write_i16")
write_key_and_i32          == write_key_and("write_key_and_i32", "write_i32")
write_key_and_i64          == write_key_and("write_key_and_i64", "write_i64")
write_key_and_i8           == write_key_and("write_key_and_i8", "write_i8")
write_key_and_map_len      == write_key_and("write_key_and_map_len", "write_map_len")
write_key_and_nfix         == write_key_and("write_key_and_nfix", "write_nfix")
write_key_and_nil          == write_key_and("write_key_and_nil", "write_nil")
write_key_and_pfix         == write_key_and("write_key_and_pfix", "write_pfix")
write_key_and_sint         == write_key_and("write_key_and_sint", "write_sint")
write_key_and_sint_eff     == write_key_and("write_key_and_sint_eff", "write_sint")
write_key_and_str          == write_key_and("write_key_and_str", "write_str")
write_key_and_u16          == write_key_and("write_key_and_u16", "write_u16")
write_key_and_u32          == write_key_and("write_key_and_u32", "write_u32")
write_key_and_u64          == write_key_and("write_key_and_u64", "write_u64")
write_key_and_u8           == write_key_and("write_key_and_u8", "write_u8")
write_key_and_uint         == write_key_and("write_key_and_uint", "write_uint")

WriteOps == {
    "write_key_and_array_header", "write_key_and_bin", "write_key_and_bool",
    "write_key_and_ext_meta", "write_key_and_f32", "write_key_and_f64",
    "write_key_and_i16", "write_key_and_i32", "write_key_and_i64",
    "write_key_and_i8", "write_key_and_map_len", "write_key_and_nfix",
    "write_key_and_nil", "write_key_and_pfix", "write_key_and_sint",
    "write_key_and_sint_eff", "write_key_and_str", "write_key_and_u16",
    "write_key_and_u32", "write_key_and_u64", "write_key_and_u8",
    "write_key_and_uint" }

\* ----------------------------------------------------------------- close
\* A close that took &mut self: the writer stays usable after an error.
life_after_close_borrowed(kind) == IF kind = "Ok" THEN "consumed" ELSE "writable"

\* close(self) takes the writer by value: it is gone afterwards whatever the
\* result.
life_after_close(kind) == "consumed"

\* On an error return self is dropped, and its TempDir with it, which removes
\* the scratch directory; on Ok file_path and tmp_dir move into the
\* TableImportReadableChunk.
close ==
    /\ life = "writable"
    /\ ncalls < MaxCalls
    /\ \E fin \in {"ok", "fail"} :
        LET chk == check_elm_number(elms_in_row)
        IN  IF chk.kind = "Err"
            THEN /\ ret' = UnmatchElementNumsError("close", "none", chk.err)
                 /\ tmp_dir' = "none"
                 /\ scratch' = "absent"
                 /\ disciplined' = (disciplined /\ RowComplete)
                 /\ g_fin' = "none"
                 /\ UNCHANGED <<finished, nchunks, chunk>>
            ELSE IF fin = "fail"
            THEN /\ ret' = Err("close", "none", "IOError", None)
                 /\ tmp_dir' = "none"
                 /\ scratch' = "absent"
                 /\ disciplined' = FALSE
                 /\ g_fin' = "fail"
                 /\ UNCHANGED <<finished, nchunks, chunk>>
            ELSE /\ ret' = Ok("close", "none")
                 /\ finished' = TRUE
                 /\ tmp_dir' = "readable"
                 /\ nchunks' = nchunks + 1
                 /\ chunk' = "alive"
                 /\ disciplined' = (disciplined /\ RowComplete)
                 /\ g_fin' = "ok"
                 /\ UNCHANGED scratch
    /\ life' = life_after_close(ret'.kind)
    /\ ncalls' = ncalls + 1
    /\ close_calls' = close_calls + 1
    /\ UNCHANGED <<elms_in_row, write, g_row, errored, g_new>>

\* ------------------------------------------------------------------ drop
\* The caller lets go of a writer it never closed (or the writer is unwound
\* by a panic): its tmp_dir field is dropped, which removes the scratch
\* directory and the file in it.
drop_writer ==
    /\ life \in {"writable", "panicked"}
    /\ life' = "dropped"
    /\ tmp_dir' = "none"
    /\ scratch' = "absent"
    /\ ret' = Ok("drop_writer", "none")
    /\ UNCHANGED <<elms_in_row, write, finished, ncalls, nchunks, close_calls,
                   g_row, disciplined, chunk, errored, g_new, g_fin>>

\* The TableImportReadableChunk goes out of scope: its tmp_dir field is
\* dropped, which removes the scratch directory and the finished file.
drop_chunk ==
    /\ chunk = "alive"
    /\ chunk' = "dropped"
    /\ tmp_dir' = "none"
    /\ scratch' = "absent"
    /\ ret' = Ok("drop_chunk", "none")
    /\ UNCHANGED <<life, elms_in_row, write, finished, ncalls, nchunks,
                   close_calls, g_row, disciplined, errored, g_new, g_fin>>

\* ------------------------------------------------------------------ Next
Next ==
    \/ new
    \/ next_row
    \/ write_key_and_array_header
    \/ write_key_and_bin
    \/ write_key_and_bool
    \/ write_key_and_ext_meta
    \/ write_key_and_f32
    \/ write_key_and_f64
    \/ write_key_and_i16
    \/ write_key_and_i32
    \/ write_key_and_i64
    \/ write_key_and_i8
    \/ write_key_and_map_len
    \/ write_key_and_nfix
    \/ write_key_and_nil
    \/ write_key_and_pfix
    \/ write_key_and_sint
    \/ write_key_and_sint_eff
    \/ write_key_and_str
    \/ write_key_and_u16
    \/ write_key_and_u32
    \/ write_key_and_u64
    \/ write_key_and_u8
    \/ write_key_and_uint
    \/ close
    \/ drop_writer
    \/ drop_chunk

Spec == Init /\ [][Next]_vars

TypeOK ==
    /\ life \in {"unborn", "writable", "consumed", "panicked", "failed", "dropped"}
    /\ elms_in_row = None \/ (Len(elms_in_row) = 1 /\ elms_in_row[1][1] \in 0..U32Max
                                                   /\ elms_in_row[1][2] \in 0..U32Max)
    /\ finished \in BOOLEAN
    /\ tmp_dir \in {"none", "writer", "readable"}
    /\ scratch \in {"absent", "dir", "dir+file"}
    /\ ncalls \in 0..MaxCalls
    /\ disciplined \in BOOLEAN
    /\ chunk \in {"none", "alive", "dropped"}
    /\ errored \in BOOLEAN
    /\ g_new \in {"none", "ok", "dir_fail", "path_fail", "file_fail"}
    /\ g_fin \in {"none", "ok", "fail"}

\* ======================================================================
\* Properties
\* ======================================================================
WriterOps == WriteOps \cup {"next_row", "close"}

\* The declared and written counts of the history cursor g_row.
Declared == g_row[1][1]
WrittenOk == g_row[1][2]

\* What a msgpack reader makes of the items: rows, each a map header of count
\* n followed by exactly n (key, value) pairs.
RECURSIVE RowsFrom(_, _)
RECURSIVE PairsFrom(_, _, _)
RowsFrom(s, i) ==
    IF i > Len(s) THEN TRUE
    ELSE s[i].t = "map" /\ PairsFrom(s, i + 1, s[i].n)
PairsFrom(s, i, k) ==
    IF k = 0 THEN RowsFrom(s, i)
    ELSE /\ i + 1 <= Len(s)
         /\ s[i].t = "key"
         /\ s[i + 1].t = "val"
         /\ PairsFrom(s, i + 2, k - 1)
WellFormed(s) == RowsFrom(s, 1)

\* C1: as long as every next_row(n) is followed by exactly n field writes
\* before the next next_row or close, and neither the sink nor finish() fails,
\* every call returns Ok and close() returns a Readable Chunk holding the
\* scratch directory.
C1_DisciplinedCallsSucceed ==
    disciplined =>
        /\ ret.kind = "Ok"
        /\ ret.op = "close" =>
              (nchunks = 1 /\ tmp_dir = "readable" /\ finished /\ scratch = "dir+file")

\* Two rows, one of them empty, written in discipline and closed.
C1_Witness ==
    /\ disciplined
    /\ ret.op = "close"
    /\ nchunks = 1
    /\ \E i \in 1..Len(write) : write[i].t = "map" /\ write[i].n = 0
    /\ \E i \in 1..Len(write) : write[i].t = "val"

\* C2: when the open row was declared with n fields and only w < n writes
\* succeeded in it, the next next_row and the next close fail with
\* UnmatchElementNums carrying exactly (n, w).
C2_ShortRowRejected ==
    [][ (ret'.op \in {"next_row", "close"} /\ g_row # None /\ WrittenOk < Declared)
            => /\ ret'.kind = "UnmatchElementNums"
               /\ ret'.err = Some(<<Declared, WrittenOk>>) ]_vars

\* next_row(1) followed directly by close(): UnmatchElementNums(1, 0).
C2_Witness ==
    /\ ret.op = "close"
    /\ ret.kind = "UnmatchElementNums"
    /\ ret.err = Some(<<1, 0>>)
    /\ ncalls = 2

\* C3: in a row opened with next_row(n), for every n of the u32 range, a
\* write the sink accepts returns Ok while fewer than n writes have succeeded
\* and fails with UnmatchElementNums once n writes have succeeded.
C3_OverflowingWriteRejected ==
    [][ (ret'.op \in WriteOps /\ g_row # None /\ ret'.kind # "MsgpackValueWriteError")
            => /\ (WrittenOk < Declared => ret'.kind = "Ok")
               /\ (WrittenOk = Declared => ret'.kind = "UnmatchElementNums") ]_vars

\* C4: every write_key_and_* call on a writer on which no next_row has
\* succeeded fails with UnmatchElementNums(None) and leaves the cursor absent.
C4_WriteBeforeFirstRow ==
    [][ (ret'.op \in WriteOps /\ g_row = None)
            => /\ ret'.kind = "UnmatchElementNums"
               /\ ret'.err = None
               /\ elms_in_row' = None ]_vars

\* C5: whenever close() has returned a Readable Chunk, the items written to
\* the sink are a concatenation of rows, each a map header followed by exactly
\* the declared number of (key, value) pairs.
C5_ClosedChunkWellFormed ==
    (ret.op = "close" /\ ret.kind = "Ok") => WellFormed(write)

\* C6: the row cursor is absent or a pair (declared, written) with
\* written <= declared.
C6_WrittenAtMostDeclared ==
    elms_in_row = None \/ elms_in_row[1][2] <= elms_in_row[1][1]

\* A full row on which one more write has just been rejected.
C6_Witness ==
    /\ ret.op \in WriteOps
    /\ ret.kind = "UnmatchElementNums"
    /\ elms_in_row = Some(<<1, 1>>)

\* C7: a next_row or write_key_and_* call that returns an error leaves the
\* cursor as it was; a successful next_row(n) sets it to (n, 0); a successful
\* write adds one to written_count and keeps declared_count.
C7_CursorFrame ==
    [][ ret'.op \in (WriteOps \cup {"next_row"})
            => /\ (ret'.kind # "Ok" => elms_in_row' = elms_in_row)
               /\ ((ret'.kind = "Ok" /\ ret'.op = "next_row")
                     => \E n \in Lens : elms_in_row' = Some(<<n, 0>>))
               /\ ((ret'.kind = "Ok" /\ ret'.op \in WriteOps)
                     => /\ elms_in_row # None
                        /\ elms_in_row' =
                             Some(<<elms_in_row[1][1], elms_in_row[1][2] + 1>>)) ]_vars

\* C8: a write_key_and_* call that fails with UnmatchElementNums has written
\* neither the key nor the value: the sink content is as before the call.
C8_ArityFailureWritesNothing ==
    [][ (ret'.op \in WriteOps /\ ret'.kind = "UnmatchElementNums")
            => write' = write ]_vars

\* C9 as stated: on a writer on which no next_row has succeeded, close()
\* never returns UnmatchElementNums and returns a Readable Chunk unless
\* finish() fails, the first next_row succeeds, and UnmatchElementNums(None)
\* comes from field writes only.
C9_FreshNextRowSucceeds ==
    [][ /\ (ret'.op = "close" /\ g_row = None)
            => /\ ret'.kind \in {"Ok", "IOError"}
               /\ ret'.kind = "Ok" => (nchunks' = nchunks + 1 /\ tmp_dir' = "readable")
        /\ (ret'.op = "next_row" /\ g_row = None) => ret'.kind = "Ok"
        /\ (ret'.kind = "UnmatchElementNums" /\ ret'.err = None)
            => ret'.op \in WriteOps ]_vars

\* C9 amended: as above, but the first next_row succeeds only if the sink
\* accepts the map header; otherwise it returns MsgpackValueWriteError, never
\* UnmatchElementNums, and the cursor stays absent.
C9_FreshCloseAndNextRow ==
    [][ /\ (ret'.op = "close" /\ g_row = None)
            => /\ ret'.kind \in {"Ok", "IOError"}
               /\ ret'.kind = "Ok" => (nchunks' = nchunks + 1 /\ tmp_dir' = "readable")
        /\ (ret'.op = "next_row" /\ g_row = None)
            => /\ ret'.kind \in {"Ok", "MsgpackValueWriteError"}
               /\ ret'.kind = "Ok" => (write' # write /\ elms_in_row' # None)
               /\ ret'.kind = "MsgpackValueWriteError"
                     => (write' = write /\ elms_in_row' = None)
        /\ (ret'.kind = "UnmatchElementNums" /\ ret'.err = None)
            => ret'.op \in WriteOps ]_vars

\* close() returned a Readable Chunk on a writer with no row, after a field
\* write that was rejected as "not started".
C9_Witness ==
    /\ ret.op = "close"
    /\ ret.kind = "Ok"
    /\ g_row = None
    /\ nchunks = 1
    /\ write = <<[t |-> "key", n |-> 0], [t |-> "val", n |-> 0]>>

\* C10: every next_row, write_key_and_* and close is applied to a writer on
\* which close() has not been called, and one writer yields at most one
\* Readable Chunk.
C10_CloseConsumes ==
    [][ ret'.op \in WriterOps => (close_calls = 0 /\ nchunks' <= 1) ]_vars

\* A close() that failed and left no writer behind.
C10_Witness ==
    /\ ret.op = "close"
    /\ ret.kind = "UnmatchElementNums"
    /\ life = "consumed"
    /\ close_calls = 1

\* The writer and the Readable Chunk as values that hold a TempDir.
WriterAlive == life \in {"writable", "panicked"}
ChunkAlive  == chunk = "alive"

\* The scratch directory has exactly one holder while a writer or a chunk is
\* alive, and it is on disk exactly while it has a holder.
OneOwner ==
    /\ ~(WriterAlive /\ ChunkAlive)
    /\ WriterAlive => tmp_dir = "writer"
    /\ ChunkAlive => tmp_dir = "readable"
    /\ (~WriterAlive /\ ~ChunkAlive) => tmp_dir = "none"
    /\ (tmp_dir # "none") <=> (scratch = "dir+file")
    /\ (tmp_dir = "none") <=> (scratch = "absent")

\* C11: the scratch directory has exactly one owner, the writer before
\* close() and the Readable Chunk after a successful close(); directory and
\* file exist while the owner is alive and are removed only when the owner is
\* dropped, a close() that fails dropping the consumed writer.
C11_SingleOwner ==
    [][ /\ OneOwner'
        /\ (scratch # "absent" /\ scratch' = "absent")
              => \/ ret'.op \in {"drop_writer", "drop_chunk"}
                 \/ (ret'.op = "close" /\ ret'.kind # "Ok")
        /\ (ret'.op = "close" /\ ret'.kind = "Ok")
              => (tmp_dir = "writer" /\ tmp_dir' = "readable" /\ scratch' = scratch)
        /\ (ret'.op = "close" /\ ret'.kind # "Ok")
              => (tmp_dir' = "none" /\ scratch' = "absent") ]_vars

\* A closed chunk of at least one row holds the directory, the writer gone.
C11_Witness ==
    /\ chunk = "alive"
    /\ life = "consumed"
    /\ tmp_dir = "readable"
    /\ scratch = "dir+file"
    /\ Len(write) > 0

\* C12: when new() fails at a step it returns IOError (directory or file
\* creation) or UnexpectedError (path conversion), there is no writer, and no
\* scratch directory or file is left.
C12_FailedNewLeavesNothing ==
    g_new \notin {"none", "ok"} =>
        /\ life = "failed"
        /\ ret.op = "new"
        /\ g_new \in {"dir_fail", "file_fail"} => ret.kind = "IOError"
        /\ g_new = "path_fail" => ret.kind = "UnexpectedError"
        /\ tmp_dir = "none"
        /\ scratch = "absent"
        /\ ncalls = 0
        /\ chunk = "none"

\* File::create failed after the directory had been made.
C12_Witness ==
    /\ g_new = "file_fail"
    /\ life = "failed"
    /\ ret.kind = "IOError"

\* C13: once a next_row or write_key_and_* call on a writer has returned an
\* error, no later close() on it returns a Readable Chunk.
C13_ErrorAbortsChunk ==
    (ret.op = "close" /\ ret.kind = "Ok") => ~errored

\* The cursor as next_row or close finds it: no row yet, or a row with as
\* many fields written as declared.
CursorComplete(e) == e = None \/ e[1][1] = e[1][2]

\* C14: next_row checks the previous row, then writes the map header, then
\* resets the cursor: failing the check it writes no header; failing the
\* header write it returns MsgpackValueWriteError with the cursor still on the
\* previous, complete row; on Ok the header of len is the last item written
\* and the cursor is (len, 0).
C14_NextRowOrder ==
    [][ ret'.op = "next_row"
            => /\ ret'.kind \in {"Ok", "UnmatchElementNums", "MsgpackValueWriteError"}
               /\ ret'.kind = "UnmatchElementNums" <=> ~CursorComplete(elms_in_row)
               /\ ret'.kind = "UnmatchElementNums"
                     => (write' = write /\ elms_in_row' = elms_in_row)
               /\ ret'.kind = "MsgpackValueWriteError"
                     => (elms_in_row' = elms_in_row /\ CursorComplete(elms_in_row'))
               /\ ret'.kind = "Ok"
                     => \E len \in Lens :
                           /\ write' = Append(write, [t |-> "map", n |-> len])
                           /\ elms_in_row' = Some(<<len, 0>>) ]_vars

\* The header write of a second row was rejected: the cursor still shows the
\* first row, complete.
C14_Witness ==
    /\ ret.op = "next_row"
    /\ ret.kind = "MsgpackValueWriteError"
    /\ elms_in_row = Some(<<1, 1>>)

C16_ArityErrorNotMasked ==
    [][ (ret'.op \in WriteOps /\ CursorComplete(elms_in_row))
            => ret'.kind = "UnmatchElementNums" ]_vars

\* C17: while a row is open the cursor is (n, k), n the argument of the most
\* recent successful next_row and k the number of writes that returned Ok
\* since; every write variant that returns Ok has put its key and its value
\* into the sink and advanced written_count by exactly one.
C17_CursorCountsOkWrites ==
    [][ /\ (life' = "writable" /\ g_row' # None) => elms_in_row' = g_row'
        /\ (ret'.op \in WriteOps /\ ret'.kind = "Ok")
              => /\ elms_in_row # None
                 /\ elms_in_row' = Some(<<elms_in_row[1][1], elms_in_row[1][2] + 1>>)
                 /\ write' = write \o <<[t |-> "key", n |-> 0], [t |-> "val", n |-> 0]>>
       ]_vars

\* C18: an UnmatchElementNums raised by a field write in an open row carries
\* (n, n + 1) while the stored cursor stays (n, n); one raised by next_row or
\* close carries the stored cursor (n, w) with w < n.  So the written
\* component exceeds the declared one exactly when a field write raised it.
C18_PayloadByOrigin ==
    (ret.kind = "UnmatchElementNums" /\ ret.err # None) =>
        /\ elms_in_row # None
        /\ ret.op \in WriterOps
        /\ ret.op \in WriteOps
              => /\ elms_in_row[1][1] = elms_in_row[1][2]
                 /\ ret.err = Some(<<elms_in_row[1][1], elms_in_row[1][1] + 1>>)
        /\ ret.op \in {"next_row", "close"}
              => /\ ret.err = elms_in_row
                 /\ elms_in_row[1][2] < elms_in_row[1][1]
        /\ ret.err[1][2] > ret.err[1][1] <=> ret.op \in WriteOps

\* A third write into a row of two was rejected with (2, 3).
C18_Witness ==
    /\ ret.op \in WriteOps
    /\ ret.kind = "UnmatchElementNums"
    /\ ret.err = Some(<<2, 3>>)
    /\ elms_in_row = Some(<<2, 2>>)

\* C19: the increment added + 1 of a field write stays within u32 for every
\* reachable cursor; on a full row of U32Max fields one more write is rejected
\* with UnmatchElementNums and the cursor is not wrapped to 0.
C19_IncrementInRange ==
    [][ (ret'.op \in WriteOps /\ elms_in_row # None
            /\ ret'.kind # "MsgpackValueWriteError")
            => /\ ret'.kind # "panic"
               /\ elms_in_row' # None
               /\ elms_in_row'[1][2] >= elms_in_row[1][2]
               /\ elms_in_row = Some(<<U32Max, U32Max>>)
                     => (ret'.kind = "UnmatchElementNums"
                         /\ elms_in_row' = elms_in_row) ]_vars

\* k field writes that the sink accepts, from cursor e: whether all of them
\* returned Ok, and the cursor after the last that did.
RECURSIVE Fill(_, _, _)
Fill(e, k, overflow_checks) ==
    IF k = 0 THEN [ok |-> TRUE, elms |-> e]
    ELSE LET inc == incr_elms_in_row(e, overflow_checks)
         IN  IF inc.kind = "Ok" THEN Fill(inc.elms, k - 1, overflow_checks)
             ELSE [ok |-> FALSE, elms |-> e]

\* The fields the open row still lacks.
Missing(e) == IF e = None THEN 0 ELSE e[1][1] - e[1][2]

\* C20: from every state of an unclosed writer, also after calls that failed,
\* writing the fields the open row still lacks (none when no row is open) and
\* then closing passes the arity check, so close() returns a Readable Chunk
\* when the sink and finish() do not fail.
C20_NoDeadEnd ==
    life = "writable" =>
        /\ Missing(elms_in_row) >= 0
        /\ \A oc \in BOOLEAN :
              LET filled == Fill(elms_in_row, Missing(elms_in_row), oc)
              IN  /\ filled.ok
                  /\ check_elm_number(filled.elms).kind = "Ok"

\* A writer that met an error, then had its row completed and was closed.
C20_Witness ==
    /\ errored
    /\ ret.op = "close"
    /\ ret.kind = "Ok"
    /\ chunk = "alive"
    /\ elms_in_row = Some(<<2, 2>>)

====
